---- MODULE Spec2Model ----
(***************************************************************************)
(* Model of the production-assistant backend (backend/server.py) and its   *)
(* Telegram relay (backend/telegram_bot.py).                               *)
(*                                                                         *)
(* One behaviour is the handling of one request.  The position of the      *)
(* handler is pc; a handler that calls another handler pushes its return   *)
(* point on stack.  Python values that may be None are sequences of        *)
(* length at most one: <<>> is None, <<v>> is the value v.  Texts are      *)
(* sequences of sentences; substring tests are membership tests on them.   *)
(***************************************************************************)
EXTENDS Integers, Sequences, FiniteSets, TLC

VARIABLES
    source_text,    \* a text handed to clean_response_text
    cleaned_text,   \* what clean_response_text returned last
    model,          \* server.py:44-54, TRUE when the Gemini client is configured
    WEATHER_API_KEY,\* server.py:23, TRUE when the forecast key is configured
    entry,          \* the endpoint (or relay handler) the request entered by
    pc,             \* position of the running handler
    stack,          \* return points of the calling handlers
    request,        \* the request body of the running handler (None = <<>>)
    response,       \* the last (body, status) returned by a handler
    attempt,        \* realtime_message: loop variable of the retry loop
    llmLog,         \* outcomes of the calls to model.generate_content, in order
    snapshot,       \* get_project_data: project header and collections so far
    fetchLog,       \* tables queried from the datastore, in order
    risks,          \* predict_risks: the list of findings
    sidx,           \* predict_risks: index of the schedule entry to evaluate
    forecastLog,    \* calls to the forecast service and their answers
    weather_info,   \* chat: the weather text ("" = <<>>)
    update,         \* telegram_bot: the text of the Telegram message
    project_data,   \* telegram_bot: the snapshot fetched for the payload
    sent,           \* telegram_bot: the texts sent back to the user
    project_id      \* get_project_data: its parameter

vars == <<source_text, cleaned_text, model, WEATHER_API_KEY, entry, pc, stack,
          request, response, attempt,
          llmLog, snapshot, fetchLog, risks, sidx, forecastLog,
          weather_info, update, project_data, sent, project_id>>

----------------------------------------------------------------------------
(* Python values                                                            *)

None == <<>>

Some(v) == <<v>>

\* str(x) inside an f-string: None renders as "None"
Str(o) == IF o = None THEN "None" ELSE o[1]

\* dict.get(key) on a decoded JSON object: None when the key is absent
Get(d, k) == IF k \in DOMAIN d THEN d[k] ELSE None

\* A sentence of a text.  s and t are its string parameters, n its number.
Sentence(kind, s, t, n) == [kind |-> kind, s |-> s, t |-> t, n |-> n]

\* a blank and a newline
WS == Sentence(" ", "", "", 0)

NL == Sentence("\\n", "", "", 0)

RECURSIVE LStrip(_)
LStrip(text) ==
    IF text # <<>> /\ Head(text) \in {WS, NL} THEN LStrip(Tail(text)) ELSE text

RECURSIVE RStrip(_)
RStrip(text) ==
    IF text # <<>> /\ text[Len(text)] \in {WS, NL}
    THEN RStrip(SubSeq(text, 1, Len(text) - 1))
    ELSE text

\* str.strip()
Strip(text) == RStrip(LStrip(text))

\* "needle in text" for a one-sentence needle
Contains(text, sentence) == \E i \in 1..Len(text) : text[i] = sentence

\* the entry of llmLog for a call to the model that raised
Raised == <<Sentence("raised", "", "", 0)>>

\* jsonify(body), status
Resp(body, status) == [status |-> status, body |-> body]

NoResponse == Resp([none |-> TRUE], 0)

\* A handler returns: to the HTTP client when no handler called it, to the
\* calling handler otherwise.
Return(r) ==
    /\ response' = r
    /\ IF stack = <<>>
       THEN pc' = "done" /\ stack' = stack
       ELSE pc' = Head(stack) /\ stack' = Tail(stack)

----------------------------------------------------------------------------
(* realtime_message                                                         *)

\* server.py:1-11: the names the module imports.  sleep is not among them.
ImportedNames == {"os", "json", "re", "logging", "Flask", "request", "jsonify",
                  "CORS", "load_dotenv", "genai", "create_client", "Client",
                  "datetime", "requests"}

RealtimeBodies ==
    {None} \cup
    { Some([table |-> Some(t), eventType |-> Some(e)]) :
          t \in {"invoices"}, e \in {"INSERT", "DELETE"} } \cup
    { Some([eventType |-> Some("INSERT")]) }

Summary == Sentence("summary", "", "", 0)

\* what model.generate_content(prompt).text can be for a summary prompt
SummaryTexts == { <<Summary>>, <<WS, Summary, WS>> }

FailedToSummarize(table, event_type) ==
    <<Sentence("Failed to summarize event", Str(table), Str(event_type), 0)>>

AIUnavailableEvent(table, event_type) ==
    <<Sentence("event, AI unavailable", Str(table), Str(event_type), 0)>>

\* Flask's answer to an exception that escapes the view function
InternalServerError == Resp([error |-> "Internal Server Error"], 500)

\* server.py:622-633, 676-678
realtime_message ==
    /\ pc = "idle"
    /\ \E data \in RealtimeBodies :
        /\ request' = data
        /\ entry' = "realtime_message"
        /\ IF data = None
           THEN \* data.get raises; the handler of line 676 reads table, which
                \* is unbound, and that exception leaves the view
                /\ Return(InternalServerError)
                /\ attempt' = attempt
           ELSE LET table == Get(data[1], "table")
                    event_type == Get(data[1], "eventType")
                IN  IF ~model
                    THEN /\ Return(Resp([message |-> AIUnavailableEvent(table, event_type)], 200))
                         /\ attempt' = attempt
                    ELSE /\ pc' = "rt_attempt"
                         /\ attempt' = 0
                         /\ UNCHANGED <<stack, response>>
    /\ UNCHANGED <<source_text, cleaned_text, model, WEATHER_API_KEY, llmLog, snapshot, fetchLog, risks,
                   sidx, forecastLog, weather_info, update, project_data, sent,
                   project_id>>

\* server.py:662-674, one iteration of "for attempt in range(3)"
RealtimeAttempt ==
    /\ pc = "rt_attempt"
    /\ LET table == Get(request[1], "table")
           event_type == Get(request[1], "eventType")
           fallback == Resp([message |-> FailedToSummarize(table, event_type)], 200)
       IN
       \/ \E text \in SummaryTexts :
            /\ llmLog' = Append(llmLog, text)
            /\ Return(Resp([message |-> Strip(text)], 200))
            /\ attempt' = attempt
       \/ /\ llmLog' = Append(llmLog, Raised)
          /\ IF attempt < 2
             THEN IF "sleep" \in ImportedNames
                  THEN /\ attempt' = attempt + 1
                       /\ UNCHANGED <<pc, stack, response>>
                  ELSE \* NameError in the handler of line 668, caught at 676
                       /\ Return(fallback)
                       /\ attempt' = attempt
             ELSE /\ Return(fallback)
                  /\ attempt' = attempt
    /\ UNCHANGED <<source_text, cleaned_text, model, WEATHER_API_KEY, entry, request, snapshot, fetchLog,
                   risks, sidx, forecastLog, weather_info, update, project_data, sent,
                   project_id>>

----------------------------------------------------------------------------
(* The datastore                                                            *)

\* the dependent collections, in the order get_project_data fetches them
TableOrder == <<"budgets", "schedules", "invoices", "scripts", "crew",
                "locations", "attendance", "departments", "equipment",
                "milestones", "payroll", "dailies", "deliverables">>

Tables == { TableOrder[i] : i \in 1..Len(TableOrder) }

\* the columns each select(...) names, with the type of the stored value
Columns(table) ==
    CASE table = "projects" ->
            [id |-> "id", name |-> "str", total_budget |-> "num",
             days_in_production |-> "num", team_members |-> "num",
             scenes_completed |-> "num", total_scenes |-> "num",
             start_date |-> "date", end_date |-> "date"]
      [] table = "budgets" ->
            [id |-> "id", department |-> "str", allocated |-> "num", spent |-> "num"]
      [] table = "schedules" ->
            [id |-> "id", scene_id |-> "num", description |-> "desc",
             planned_start |-> "date", status |-> "str"]
      [] table = "invoices" ->
            [id |-> "id", vendor |-> "str", amount |-> "num", due_date |-> "date",
             status |-> "str", delay_days |-> "num"]
      [] table = "scripts" ->
            [id |-> "id", version |-> "str", date |-> "date", status |-> "str",
             author |-> "str"]
      [] table = "crew" ->
            [id |-> "id", name |-> "str", role |-> "str", department |-> "str",
             status |-> "str", contact |-> "str"]
      [] table = "locations" ->
            [id |-> "id", name |-> "str", type |-> "str", cost |-> "num",
             status |-> "str"]
      [] table = "attendance" ->
            [id |-> "id", date |-> "date", present |-> "num", absent |-> "num",
             late |-> "num", total |-> "num"]
      [] table = "departments" ->
            [id |-> "id", name |-> "str", head_count |-> "num", lead |-> "str",
             budget |-> "num", status |-> "str"]
      [] table = "equipment" ->
            [id |-> "id", name |-> "str", unit |-> "str", status |-> "str",
             condition |-> "str"]
      [] table = "milestones" ->
            [id |-> "id", milestone |-> "str", target_date |-> "date",
             status |-> "str", progress |-> "num"]
      [] table = "payroll" ->
            [id |-> "id", category |-> "str", amount |-> "num", status |-> "str",
             due_date |-> "date"]
      [] table = "dailies" ->
            [id |-> "id", scene_id |-> "num", takes |-> "num", review |-> "num",
             retake |-> "num", approved |-> "num", director_status |-> "str",
             created_at |-> "date"]
      [] table = "deliverables" ->
            [id |-> "id", name |-> "str", type |-> "str", status |-> "str",
             due_date |-> "date", created_at |-> "date"]

\* .limit(n) of each query; 0 stands for a query without a limit
QueryLimit(table) ==
    CASE table \in {"schedules", "invoices", "scripts"} -> 5
      [] table \in {"crew", "locations", "attendance", "equipment", "milestones",
                    "payroll", "dailies", "deliverables"} -> 10
      [] OTHER -> 0

\* an ISO-8601 timestamp; z is the "Z" suffix
IsoDate(y, m, d, z) == [y |-> y, m |-> m, d |-> d, z |-> z]

\* a date in display format, or the text "N/A"
DisplayDate(d, m, y) == [kind |-> "dd/mm/YYYY", d |-> d, m |-> m, y |-> y]

NA_Date == [kind |-> "N/A", d |-> 0, m |-> 0, y |-> 0]

\* The projects the datastore holds.  p_full has more rows than any limit of 5,
\* p_empty has no dependent rows, p_nulls stores null in every nullable column
\* but description, p_nodesc stores a null description, p_week and p_tie are
\* p_full with other budget figures, and the project named "no_" + table,
\* written here as the table's name, has rows in every collection but that one.
ProjectIds == {"p_full", "p_empty", "p_nulls", "p_nodesc", "p_week", "p_tie"}
              \cup Tables

\* a project identifier without a project record
MissingProject == "p_missing"

StoredNull(pid, table, col) ==
    \/ pid = "p_nulls" /\ col # "description"
    \/ pid = "p_nodesc" /\ table = "schedules" /\ col = "description"

StoredValue(pid, table, col, type, i) ==
    CASE type = "id"   -> Some(i)
      [] StoredNull(pid, table, col) -> None
      [] type = "str"  -> Some(col)
      [] type = "date" -> Some(IsoDate(2025, 3, i, i % 2 = 0))
      [] type = "desc" -> Some(IF i % 2 = 1 THEN <<"Chase", " at ", "Goa">>
                                            ELSE <<"Studio">>)
      [] table = "projects" /\ col = "total_budget" ->
            Some(CASE pid = "p_week" -> 100 [] pid = "p_tie" -> 1 [] OTHER -> 900000)
      [] table = "projects" /\ col = "days_in_production" ->
            Some(CASE pid = "p_week" -> 7 [] pid = "p_tie" -> 2 [] OTHER -> 30)
      [] OTHER -> Some(i)

StoredRow(pid, table, i) ==
    [col \in DOMAIN Columns(table) |->
        StoredValue(pid, table, col, Columns(table)[col], i)]

RowCount(pid, table) ==
    CASE pid = "p_empty" \/ pid = table -> 0
      [] pid = "p_full" -> 6
      [] OTHER -> 1

\* supabase.table(t).select(...).eq("project_id", pid)[.order(...)][.limit(n)]
\* .execute().data: the rows are held in the order the query asks for
Query(table, pid) ==
    LET n == IF pid \in ProjectIds THEN RowCount(pid, table) ELSE 0
        k == IF QueryLimit(table) = 0 \/ n <= QueryLimit(table)
             THEN n ELSE QueryLimit(table)
    IN  [i \in 1..k |-> StoredRow(pid, table, i)]

\* QueryProject without the filter on the project identifier
QueryProject_AnyId(pid) == <<StoredRow(pid, "projects", 1)>>

\* supabase.table("projects").select(...).eq("id", pid).execute().data
QueryProject(pid) ==
    IF pid \in ProjectIds THEN <<StoredRow(pid, "projects", 1)>> ELSE <<>>

----------------------------------------------------------------------------
(* get_project_data                                                         *)

\* Python truthiness of a stored value
Truthy(v, type) ==
    /\ v # None
    /\ type = "num" => v[1] # 0
    /\ type = "str" => v[1] # ""

\* x[col] or default
Or(v, type, default) == IF Truthy(v, type) THEN v ELSE Some(default)

\* datetime.fromisoformat(s.replace("Z", "+00:00")).strftime("%d/%m/%Y")
\* if s else "N/A"
FormatDate(v) ==
    IF v = None THEN Some(NA_Date)
    ELSE Some(DisplayDate(v[1].d, v[1].m, v[1].y))

\* the index of the last " at " of a description, 0 when there is none
RECURSIVE LastAt(_, _)
LastAt(desc, i) ==
    IF i = 0 THEN 0
    ELSE IF desc[i] = " at " THEN i ELSE LastAt(desc, i - 1)

\* description.split(" at ")[-1] if " at " in description else description
ResolveLocation(v) ==
    LET desc == v[1]
        k == LastAt(desc, Len(desc))
    IN  IF k = 0 THEN v ELSE Some(SubSeq(desc, k + 1, Len(desc)))

\* server.py:164-174
ProjectHeader(x) ==
    [id |-> x.id,
     name |-> Or(x.name, "str", "Unnamed Project"),
     total_budget |-> Or(x.total_budget, "num", 0),
     days_in_production |-> Or(x.days_in_production, "num", 0),
     team_members |-> Or(x.team_members, "num", 0),
     scenes_completed |-> Or(x.scenes_completed, "num", 0),
     total_scenes |-> Or(x.total_scenes, "num", 1),
     start_date |-> IF x.start_date = None THEN Some("") ELSE x.start_date,
     end_date |-> IF x.end_date = None THEN Some("") ELSE x.end_date]

\* the dictionary each list comprehension builds from a row x
Projection(table, x) ==
    CASE table = "budgets" ->
            [id |-> x.id,
             department |-> Or(x.department, "str", "Unknown"),
             allocated |-> Or(x.allocated, "num", 0),
             spent |-> Or(x.spent, "num", 0)]
      [] table = "schedules" ->
            [id |-> x.id,
             scene |-> Some(<<"Scene", x.scene_id>>),
             location |-> ResolveLocation(x.description),
             status |-> x.status,
             date |-> FormatDate(x.planned_start)]
      [] table = "invoices" ->
            [id |-> x.id,
             vendor |-> Or(x.vendor, "str", "Unknown"),
             amount |-> Or(x.amount, "num", 0),
             date |-> FormatDate(x.due_date),
             status |-> x.status,
             delay_days |-> Or(x.delay_days, "num", 0)]
      [] table = "scripts" ->
            [id |-> x.id,
             version |-> Or(x.version, "str", "N/A"),
             date |-> FormatDate(x.date),
             status |-> x.status,
             author |-> Or(x.author, "str", "Unknown")]
      [] table = "crew" ->
            [id |-> x.id,
             name |-> Or(x.name, "str", "Unknown"),
             role |-> Or(x.role, "str", "N/A"),
             department |-> Or(x.department, "str", "N/A"),
             status |-> Or(x.status, "str", "Not Started"),
             contact |-> Or(x.contact, "str", "N/A")]
      [] table = "locations" ->
            [id |-> x.id,
             name |-> Or(x.name, "str", "Unknown"),
             type |-> Or(x.type, "str", "N/A"),
             cost |-> Or(x.cost, "num", 0),
             status |-> Or(x.status, "str", "Not Secured")]
      [] table = "attendance" ->
            [id |-> x.id,
             date |-> FormatDate(x.date),
             present |-> Or(x.present, "num", 0),
             absent |-> Or(x.absent, "num", 0),
             late |-> Or(x.late, "num", 0),
             total |-> Or(x.total, "num", 0)]
      [] table = "departments" ->
            [id |-> x.id,
             name |-> Or(x.name, "str", "Unknown"),
             head_count |-> Or(x.head_count, "num", 0),
             lead |-> Or(x.lead, "str", "N/A"),
             budget |-> Or(x.budget, "num", 0),
             status |-> Or(x.status, "str", "N/A")]
      [] table = "equipment" ->
            [id |-> x.id,
             name |-> Or(x.name, "str", "Unknown"),
             unit |-> Or(x.unit, "str", "N/A"),
             status |-> Or(x.status, "str", "N/A"),
             condition |-> Or(x.condition, "str", "N/A")]
      [] table = "milestones" ->
            [id |-> x.id,
             milestone |-> Or(x.milestone, "str", "N/A"),
             target_date |-> FormatDate(x.target_date),
             status |-> Or(x.status, "str", "Not Started"),
             progress |-> Or(x.progress, "num", 0)]
      [] table = "payroll" ->
            [id |-> x.id,
             category |-> Or(x.category, "str", "N/A"),
             amount |-> Or(x.amount, "num", 0),
             status |-> Or(x.status, "str", "Pending"),
             due_date |-> FormatDate(x.due_date)]
      [] table = "dailies" ->
            [id |-> x.id, scene_id |-> x.scene_id, takes |-> x.takes,
             review |-> x.review, retake |-> x.retake, approved |-> x.approved,
             director_status |-> x.director_status, created_at |-> x.created_at]
      [] table = "deliverables" ->
            [id |-> x.id, name |-> x.name, type |-> x.type, status |-> x.status,
             due_date |-> x.due_date, created_at |-> x.created_at]

\* building the dictionary raises: " at " in None is a TypeError
ProjectionRaises(table, x) == table = "schedules" /\ x.description = None

\* the first collection the handler has not fetched yet, 0 when none is left
RECURSIVE NextTable(_, _)
NextTable(snap, i) ==
    IF i > Len(TableOrder) THEN 0
    ELSE IF TableOrder[i] \in DOMAIN snap THEN NextTable(snap, i + 1) ELSE i

\* one entry of fetchLog: the table queried and what execute() did
Fetch(table, result) == [table |-> table, result |-> result]

Outcome(data) == IF data = <<>> THEN "no data" ELSE "rows"

\* server.py:397-399
FailedToFetch == Resp([error |-> "Failed to fetch project data"], 500)

\* server.py:162
ProjectNotFound == Resp([error |-> "Project not found"], 404)

\* GET /project-data/<project_id>
HttpGetProjectData ==
    /\ pc = "idle"
    /\ \E pid \in ProjectIds \cup {MissingProject} :
        /\ project_id' = pid
        /\ entry' = "get_project_data"
        /\ pc' = "gpd_project"
    /\ UNCHANGED <<source_text, cleaned_text, model, WEATHER_API_KEY, stack, request, response, attempt,
                   llmLog, snapshot, fetchLog, risks, sidx, forecastLog,
                   weather_info, update, project_data, sent>>

\* server.py:155-174.  execute() answers or raises.
GpdFetchProject ==
    /\ pc = "gpd_project"
    /\ \/ /\ fetchLog' = Append(fetchLog, Fetch("projects", "raised"))
          /\ Return(FailedToFetch)
          /\ UNCHANGED snapshot
       \/ LET data == QueryProject(project_id)
          IN  /\ fetchLog' = Append(fetchLog, Fetch("projects", Outcome(data)))
              /\ IF data = <<>>
                 THEN /\ Return(ProjectNotFound)
                      /\ UNCHANGED snapshot
                 ELSE /\ snapshot' = [project |-> ProjectHeader(data[1])]
                      /\ pc' = "gpd_fetch"
                      /\ UNCHANGED <<stack, response>>
    /\ UNCHANGED <<source_text, cleaned_text, model, WEATHER_API_KEY, entry, request, attempt, llmLog,
                   risks, sidx, forecastLog, weather_info, update, project_data, sent,
                   project_id>>

\* server.py:176-399, the fetch of one dependent collection and, after the
\* last one, the response.  execute() answers or raises.
GpdFetchTable ==
    /\ pc = "gpd_fetch"
    /\ LET table == TableOrder[NextTable(snapshot, 1)]
           data == Query(table, project_id)
           raises == \E i \in 1..Len(data) : ProjectionRaises(table, data[i])
           rows == [i \in 1..Len(data) |-> Projection(table, data[i])]
           snap == snapshot @@ (table :> rows)
       IN  \/ /\ fetchLog' = Append(fetchLog, Fetch(table, "raised"))
              /\ Return(FailedToFetch)
              /\ UNCHANGED snapshot
           \/ /\ fetchLog' = Append(fetchLog, Fetch(table, Outcome(data)))
              /\ IF raises
                 THEN /\ Return(FailedToFetch)
                      /\ UNCHANGED snapshot
                 ELSE /\ snapshot' = snap
                      /\ IF NextTable(snap, 1) = 0
                         THEN Return(Resp(snap, 200))
                         ELSE UNCHANGED <<pc, stack, response>>
    /\ UNCHANGED <<source_text, cleaned_text, model, WEATHER_API_KEY, entry, request, attempt, llmLog,
                   risks, sidx, forecastLog, weather_info, update, project_data, sent,
                   project_id>>

----------------------------------------------------------------------------
(* chat                                                                     *)

\* the words user messages are made of
Vocabulary == <<"Weather", "our location", "SHOOT LOCATION", "Delay",
                "extra days", "hello">>

\* str.lower() of a word
Lower(word) ==
    CASE word = "Weather" -> "weather"
      [] word = "SHOOT LOCATION" -> "shoot location"
      [] word = "Delay" -> "delay"
      [] OTHER -> word

\* the message made of the words of Vocabulary at the positions of S
RECURSIVE Pick(_, _)
Pick(S, i) ==
    IF i > Len(Vocabulary) THEN <<>>
    ELSE (IF i \in S THEN <<Vocabulary[i]>> ELSE <<>>) \o Pick(S, i + 1)

\* user messages; <<>> is the empty string
Messages == { Pick(S, 1) : S \in SUBSET (1..Len(Vocabulary)) }

\* phrase in user_message.lower()
Mentions(message, phrase) ==
    \E i \in 1..Len(message) : Lower(message[i]) = phrase

ChatProjectIds == {"p_full", "p_empty", "p_nulls", "p_nodesc", "p_week",
                   "p_tie", MissingProject}

ChatLocations == {None, Some(""), Some("Delhi")}

ChatBody(message, pid, location) ==
    [message |-> message, project_id |-> pid, location |-> location]

\* request.get_json() of POST /chat
ChatBodies ==
    {None} \cup
    { Some(ChatBody(m, p, l)) :
        m \in {None} \cup { Some(t) : t \in Messages },
        p \in {None} \cup { Some(i) : i \in ChatProjectIds },
        l \in ChatLocations }

\* server.py:615-617
FailedToProcessChat == Resp([error |-> "Failed to process chat request"], 500)

AIUnavailable == <<Sentence("AI unavailable, please try later.", "", "", 0)>>

\* what GET current.json can do: time out, or answer with a status and a
\* payload that carries "current" (condition text and temperature) or not
CurrentAnswers ==
    { [status |-> 0, current |-> None],
      [status |-> 200, current |-> Some([condition |-> Some("Sunny"), temp_c |-> 31])],
      [status |-> 200, current |-> Some([condition |-> None, temp_c |-> 31])],
      [status |-> 200, current |-> None],
      [status |-> 400, current |-> None] }

\* server.py:546-560
WeatherInfo(location_query, answer) ==
    IF answer.status = 0
    THEN <<Sentence("Weather data fetch error.", "", "", 0)>>
    ELSE IF answer.status = 200 /\ answer.current # None
         THEN IF answer.current[1].condition = None
              THEN <<Sentence("Weather data fetch error.", "", "", 0)>>
              ELSE <<Sentence("Weather in", location_query,
                              answer.current[1].condition[1],
                              answer.current[1].temp_c)>>
         ELSE <<Sentence("Weather data unavailable for", location_query, "", 0)>>

\* one entry of forecastLog
ForecastCall(op, q, dt, answer) == [op |-> op, q |-> q, dt |-> dt, answer |-> answer]

\* telegram_bot.py:16, the project the relay is set up for; the datastore
\* holds it
PROJECT_ID == "p_full"

\* telegram_bot.py:57-63, the body the relay posts to /chat
RelayPayload ==
    [message |-> Some(update),
     project |-> IF "project" \in DOMAIN project_data
                 THEN project_data.project ELSE <<>>,
     budgets |-> IF "budgets" \in DOMAIN project_data
                 THEN project_data.budgets ELSE <<>>,
     schedules |-> IF "schedules" \in DOMAIN project_data
                   THEN project_data.schedules ELSE <<>>,
     invoices |-> IF "invoices" \in DOMAIN project_data
                  THEN project_data.invoices ELSE <<>>]

\* ChatCheck without the test of the model
ChatCheck_ModelNotTested(data, llm) ==
    IF data = None THEN "raise"
    ELSE IF Get(data[1], "message") = None \/ Get(data[1], "message")[1] = <<>>
    THEN "No message provided"
    ELSE IF Get(data[1], "project_id") = None \/ Get(data[1], "project_id")[1] = ""
    THEN "No project_id provided"
    ELSE "fetch"

\* server.py:495-505: what the handler does with the body data when the
\* model is configured (llm) or not
ChatCheck(data, llm) ==
    IF data = None THEN "raise"                    \* None has no get
    ELSE IF Get(data[1], "message") = None \/ Get(data[1], "message")[1] = <<>>
    THEN "No message provided"
    ELSE IF Get(data[1], "project_id") = None \/ Get(data[1], "project_id")[1] = ""
    THEN "No project_id provided"
    ELSE IF ~llm THEN "AI unavailable"
    ELSE "fetch"

\* POST /chat, server.py:494-510
chat ==
    /\ pc \in {"idle", "relay_post"}
    /\ \E data \in IF pc = "idle" THEN ChatBodies ELSE {Some(RelayPayload)} :
        /\ request' = data
        /\ entry' = IF pc = "idle" THEN "chat" ELSE entry
        /\ LET st == IF pc = "idle" THEN stack ELSE <<"relay_reply">> \o stack
               check == ChatCheck(data, model)
               Ret(r) == /\ response' = r
                         /\ IF st = <<>>
                            THEN pc' = "done" /\ stack' = st
                            ELSE pc' = Head(st) /\ stack' = Tail(st)
           IN  CASE check = "raise" ->
                      Ret(FailedToProcessChat) /\ UNCHANGED project_id
                 [] check \in {"No message provided", "No project_id provided"} ->
                      Ret(Resp([error |-> check], 400)) /\ UNCHANGED project_id
                 [] check = "AI unavailable" ->
                      Ret(Resp([reply |-> AIUnavailable], 200)) /\ UNCHANGED project_id
                 [] OTHER ->
                      /\ project_id' = Get(data[1], "project_id")[1]
                      /\ pc' = "gpd_project"
                      /\ stack' = <<"chat_data">> \o st
                      /\ UNCHANGED response
    /\ UNCHANGED <<source_text, cleaned_text, model, WEATHER_API_KEY, attempt, llmLog, snapshot, fetchLog,
                   risks, sidx, forecastLog, weather_info, update,
                   project_data, sent>>

\* LocationQuery with the phrase match tested before the caller's location
LocationQuery_PhraseFirst(user_message, location, locations) ==
    LET Result(kind, q) == [kind |-> kind, q |-> q]
    IN  IF ~Mentions(user_message, "weather") THEN Result("none", "")
        ELSE IF Mentions(user_message, "our location")
                \/ Mentions(user_message, "shoot location")
        THEN IF locations # <<>>
             THEN Result("query",
                         Or(Get(locations[1], "name"), "str", "Hyderabad")[1])
             ELSE Result("No shooting locations found in project data.", "")
        ELSE IF location # None /\ location[1] # ""
        THEN Result("query", location[1])
        ELSE Result("Please provide a location (e.g. Hyderabad or 17.3850,78.4867).", "")

\* server.py:528-543: where the weather is asked for.  kind is "none" (no
\* weather clause), "query" (ask the forecast service about q), or the reply
\* the request ends with
LocationQuery(user_message, location, locations) ==
    LET Result(kind, q) == [kind |-> kind, q |-> q]
    IN  IF ~Mentions(user_message, "weather") THEN Result("none", "")
        ELSE IF location # None /\ location[1] # ""
        THEN Result("query", location[1])
        ELSE IF Mentions(user_message, "our location")
                \/ Mentions(user_message, "shoot location")
        THEN IF locations # <<>>
             THEN Result("query",
                         Or(Get(locations[1], "name"), "str", "Hyderabad")[1])
             ELSE Result("No shooting locations found in project data.", "")
        ELSE Result("Please provide a location (e.g. Hyderabad or 17.3850,78.4867).", "")

\* server.py:508-560: the answer of get_project_data and the weather fetch
ChatWeather ==
    /\ pc = "chat_data"
    /\ IF response.status # 200
       THEN Return(response) /\ UNCHANGED <<forecastLog, weather_info>>
       ELSE LET where == LocationQuery(request[1].message[1],
                                       Get(request[1], "location"),
                                       response.body.locations)
            IN  CASE where.kind = "none" ->
                       /\ pc' = "chat_llm"
                       /\ UNCHANGED <<stack, response, forecastLog, weather_info>>
                  [] where.kind = "query" ->
                       \E answer \in CurrentAnswers :
                         /\ forecastLog' = Append(forecastLog,
                                ForecastCall("current", where.q, None, answer))
                         /\ weather_info' = WeatherInfo(where.q, answer)
                         /\ pc' = "chat_llm"
                         /\ UNCHANGED <<stack, response>>
                  [] OTHER ->
                       /\ Return(Resp([reply |-> <<Sentence(where.kind, "", "", 0)>>], 200))
                       /\ UNCHANGED <<forecastLog, weather_info>>
    /\ UNCHANGED <<source_text, cleaned_text, model, WEATHER_API_KEY, entry, request, attempt, llmLog,
                   snapshot, fetchLog, risks, sidx, update, project_data, sent,
                   project_id>>

\* f"{x:,.0f}" of the quotient num / den, den > 0: round half to even
RoundHalfEven(num, den) ==
    LET q == num \div den
        r == num % den
    IN  IF 2 * r < den THEN q
        ELSE IF 2 * r > den THEN q + 1
        ELSE IF q % 2 = 0 THEN q ELSE q + 1

\* max(a, b)
Max(a, b) == IF a >= b THEN a ELSE b

\* a delay of two days
delay_days_Two == 3 - 1

\* server.py:568
delay_days == 3

\* server.py:563-570, the delay-cost sentence ("" = <<>>)
DelayCostInfo(user_message, project) ==
    IF Mentions(user_message, "delay") \/ Mentions(user_message, "extra days")
    THEN LET total_budget == Or(Get(project, "total_budget"), "num", 0)[1]
             days_in_production == Or(Get(project, "days_in_production"), "num", 1)[1]
             \* daily_cost = total_budget / max(days_in_production, 1) and
             \* extra_cost = daily_cost * delay_days, kept as a fraction
             extra_num == total_budget * delay_days
             extra_den == Max(days_in_production, 1)
         IN  <<Sentence("Estimated cost impact of extra days", "", "",
                        RoundHalfEven(extra_num, extra_den))>>
    ELSE <<>>

Answer == Sentence("answer", "", "", 0)

\* what model.generate_content(context).text can be: the context shows the
\* model both sentences, so its text may repeat either of them
ChatTexts(w, d) ==
    { <<Answer>>, <<WS, Answer, WS>>, <<Answer>> \o w, <<Answer>> \o d,
      d \o <<Answer>> \o d, <<Answer>> \o w \o d }

\* server.py:562-613
ChatReply ==
    /\ pc = "chat_llm"
    /\ LET user_message == request[1].message[1]
           delay_cost_info == DelayCostInfo(user_message, response.body.project)
       IN  \/ /\ llmLog' = Append(llmLog, Raised)
              /\ Return(FailedToProcessChat)
           \/ \E text \in ChatTexts(weather_info, delay_cost_info) :
                LET reply0 == Strip(text)
                    reply1 == IF weather_info # <<>> /\ ~Contains(reply0, weather_info[1])
                              THEN reply0 \o weather_info ELSE reply0
                    reply2 == IF delay_cost_info # <<>>
                                 /\ ~Contains(reply1, delay_cost_info[1])
                              THEN reply1 \o delay_cost_info ELSE reply1
                IN  /\ llmLog' = Append(llmLog, text)
                    /\ Return(Resp([reply |-> reply2], 200))
    /\ UNCHANGED <<source_text, cleaned_text, model, WEATHER_API_KEY, entry, request, attempt, snapshot,
                   fetchLog, risks, sidx, forecastLog, weather_info, update,
                   project_data, sent, project_id>>

----------------------------------------------------------------------------
(* predict_risks                                                            *)

\* the most schedule entries a request body carries
MaxSchedules == 3

\* server.py:114
RequiredKeys == {"type", "title", "description", "confidence", "impact"}

\* A decoded JSON element of a risk list: a mapping with its keys, title,
\* description and confidence, or a value that is not a mapping
Element(mapping, keys, title, description, confidence) ==
    [mapping |-> mapping, keys |-> keys, title |-> title,
     description |-> description, confidence |-> confidence]

\* the entries of "schedules" in a request body
ScheduleEntries ==
    { [location |-> Some(<<"Goa">>), date |-> Some(DisplayDate(1, 3, 2025))],
      [location |-> None,            date |-> Some(DisplayDate(1, 3, 2025))],
      [location |-> Some(<<"Goa">>), date |-> Some(NA_Date)],
      [location |-> Some(<<"Goa">>), date |-> Some(DisplayDate(31, 2, 2025))] }

RECURSIVE SeqsUpTo(_, _)
SeqsUpTo(S, n) ==
    IF n = 0 THEN {<<>>}
    ELSE LET shorter == SeqsUpTo(S, n - 1)
         IN  shorter \cup { Append(q, x) : q \in shorter, x \in S }

RiskBody(schedules, dailies) ==
    [project |-> <<>>, budgets |-> <<>>, schedules |-> schedules,
     invoices |-> <<>>, dailies |-> dailies, deliverables |-> <<>>]

\* request.get_json() of POST /predict-risks: no body, an empty object, or an
\* object with schedules; one body carries a daily without scene_id
RiskBodies ==
    {None, Some(<<>>)} \cup
    { Some(RiskBody(q, <<>>)) : q \in SeqsUpTo(ScheduleEntries, MaxSchedules) } \cup
    { Some(RiskBody(<<>>, <<[id |-> Some(1)]>>)) }

DaysInMonth(m, y) ==
    CASE m \in {4, 6, 9, 11} -> 30
      [] m = 2 -> IF y % 4 = 0 /\ (y % 100 # 0 \/ y % 400 = 0) THEN 29 ELSE 28
      [] OTHER -> 31

\* datetime.strptime(date, "%d/%m/%Y") raises ValueError
StrptimeRaises(date) ==
    \/ date.kind # "dd/mm/YYYY"
    \/ date.m \notin 1..12
    \/ date.d \notin 1..DaysInMonth(date.m, date.y)

\* datetime.strptime(date, "%d/%m/%Y").strftime("%Y-%m-%d")
ToIso(date) == [y |-> date.y, m |-> date.m, d |-> date.d]

\* one element of forecast.forecastday: the day's chance of rain and condition
ForecastDay(rain, condition) == [rain |-> rain, condition |-> condition]

\* what GET forecast.json can do: time out (status 0), or answer with a status
\* and the list forecast.forecastday of its payload
ForecastAnswers ==
    { [status |-> 0, forecastday |-> <<>>],
      [status |-> 400, forecastday |-> <<>>],
      [status |-> 200, forecastday |-> <<>>],
      [status |-> 200, forecastday |-> <<ForecastDay(Some(80), None)>>],
      [status |-> 200, forecastday |-> <<ForecastDay(None, Some("Sunny"))>>] } \cup
    { [status |-> 200, forecastday |-> <<ForecastDay(Some(p), Some("Rain"))>>] :
          p \in {50, 51, 80} }

\* server.py:445-451
WeatherFinding(rain_chance, date, location, condition) ==
    Element(TRUE, RequiredKeys, "Weather Risk",
            <<rain_chance, date, location, condition>>, rain_chance)

\* WeatherFindings with an inclusive threshold
WeatherFindings_Inclusive(s, answer) ==
    IF answer.status # 200 THEN <<>>
    ELSE IF answer.forecastday = <<>> THEN <<>>
    ELSE LET day == answer.forecastday[1]
         IN  IF day.condition = None THEN <<>>
             ELSE IF day.rain # None /\ day.rain[1] # 0 /\ day.rain[1] >= 50
                  THEN <<WeatherFinding(day.rain[1], s.date[1], s.location[1],
                                        day.condition[1])>>
                  ELSE <<>>

\* server.py:437-456: the findings one forecast answer adds to risks
WeatherFindings(s, answer) ==
    IF answer.status # 200 THEN <<>>
    ELSE IF answer.forecastday = <<>> THEN <<>>              \* IndexError
    ELSE LET day == answer.forecastday[1]
         IN  IF day.condition = None THEN <<>>               \* KeyError
             ELSE IF day.rain # None /\ day.rain[1] # 0 /\ day.rain[1] > 50
                  THEN <<WeatherFinding(day.rain[1], s.date[1], s.location[1],
                                        day.condition[1])>>
                  ELSE <<>>

\* server.py:424, the entry is skipped
Skipped(s) ==
    \/ s.location = None \/ s.location[1] = <<>>
    \/ s.date = None \/ s.date[1] = NA_Date

\* AfterEntry with the try statement around the loop: a failure ends the loop
AfterEntry_FailureEndsLoop(i, n, failed) ==
    IF i = n \/ failed THEN "pr_llm" ELSE "pr_weather"

\* server.py:421, 427, 455: the try statement is inside the loop, so after
\* the entry at position i of n the loop goes on whether or not the entry
\* failed
AfterEntry(i, n, failed) == IF i = n THEN "pr_llm" ELSE "pr_weather"

\* the forecast answer is a failure: a timeout, a status other than 200, or
\* a payload that makes the handler raise
ForecastFailed(answer) ==
    \/ answer.status # 200
    \/ answer.forecastday = <<>>
    \/ answer.forecastday[1].condition = None

\* validate_risks looking at the first element only
validate_risks_FirstElementOnly(value) ==
    /\ value.list
    /\ value.items # <<>> =>
          /\ value.items[1].mapping
          /\ RequiredKeys \subseteq value.items[1].keys

\* server.py:108-117
validate_risks(value) ==
    /\ value.list
    /\ \A i \in 1..Len(value.items) :
          /\ value.items[i].mapping
          /\ RequiredKeys \subseteq value.items[i].keys

\* the pieces model texts with JSON in them are made of
\* three backticks
FENCE == Sentence("fence", "", "", 0)

LANG == Sentence("json", "", "", 0)

Doc(name) == Sentence("document", name, "", 0)

\* server.py:100-106
clean_response_text(raw) ==
    LET text == Strip(raw)
        \* the end of the prefix fence [a-zA-Z]* newline, 0 when the text does not start with it
        RECURSIVE FenceEnd(_)
        FenceEnd(i) ==
            IF i > Len(text) THEN 0
            ELSE IF text[i] = NL THEN i
            ELSE IF text[i] = LANG THEN FenceEnd(i + 1)
            ELSE 0
        k == IF text # <<>> /\ Head(text) = FENCE THEN FenceEnd(2) ELSE 0
        opened == IF k = 0 THEN text ELSE SubSeq(text, k + 1, Len(text))
        n == Len(opened)
    IN  IF n >= 2 /\ opened[n] = FENCE /\ opened[n - 1] = NL
        THEN SubSeq(opened, 1, n - 2)
        ELSE opened

ValidFinding == Element(TRUE, RequiredKeys, "Budget Overrun", <<>>, 85)

\* a decoded JSON value: a list with its items, or something else
JsonList(items) == [json |-> TRUE, list |-> TRUE, items |-> items]

JsonOther == [json |-> TRUE, list |-> FALSE, items |-> <<>>]

NotJson == [json |-> FALSE, list |-> FALSE, items |-> <<>>]

\* the documents a model text can carry and what each decodes to
Decode(name) ==
    CASE name = "[]" -> JsonList(<<>>)
      [] name = "[finding]" -> JsonList(<<ValidFinding>>)
      [] name = "[finding, finding without impact]" ->
            JsonList(<<ValidFinding,
                       Element(TRUE, RequiredKeys \ {"impact"}, "Delay", <<>>, 60)>>)
      [] name = "[finding, 7]" ->
            JsonList(<<ValidFinding, Element(FALSE, {}, "", <<>>, 0)>>)
      [] name = "[finding with source]" ->
            JsonList(<<Element(TRUE, RequiredKeys \cup {"source"}, "Overtime",
                               <<>>, 40)>>)
      [] name = "[finding with confidence 150]" ->
            JsonList(<<Element(TRUE, RequiredKeys, "Strike", <<>>, 150)>>)
      [] name = "{finding}" -> JsonOther
      [] OTHER -> NotJson

Documents == {"[]", "[finding]", "[finding, finding without impact]",
              "[finding, 7]", "[finding with source]",
              "[finding with confidence 150]", "{finding}",
              "Here are the risks"}

\* json.loads(text): blanks around one document
json_loads(text) ==
    LET t == Strip(text)
    IN  IF Len(t) = 1 /\ t[1].kind = "document" THEN Decode(t[1].s) ELSE NotJson

\* what model.generate_content(prompt).text can be for a risk prompt
RiskTexts ==
    { <<Doc(d)>> : d \in Documents } \cup
    { <<FENCE, LANG, NL, Doc(d), NL, FENCE>> : d \in {"[]", "[finding]", "[finding, 7]"} } \cup
    { <<NL, FENCE, NL, Doc("[finding]"), NL, FENCE, NL>>,
      <<FENCE, Doc("[finding]"), FENCE>> }

\* build_risk_prompt raises KeyError: a daily without scene_id or
\* director_status, a deliverable without name or status (server.py:84-85)
PromptRaises(data) ==
    \/ \E i \in 1..Len(data.dailies) :
          ~({"scene_id", "director_status"} \subseteq DOMAIN data.dailies[i])
    \/ \E i \in 1..Len(data.deliverables) :
          ~({"name", "status"} \subseteq DOMAIN data.deliverables[i])

\* AiRisks extending the list with whatever list the answer decodes to
AiRisks_Unvalidated(raw) ==
    LET ai_risks == json_loads(clean_response_text(raw))
    IN  IF ai_risks.json /\ ai_risks.list THEN ai_risks.items ELSE <<>>

\* server.py:458-483: what the answer of the model adds to risks
AiRisks(raw) ==
    LET ai_risks == json_loads(clean_response_text(raw))
    IN  IF ai_risks.json /\ validate_risks(ai_risks) THEN ai_risks.items ELSE <<>>

\* POST /predict-risks, server.py:403-417
predict_risks ==
    /\ pc = "idle"
    /\ \E data \in RiskBodies :
        /\ request' = data
        /\ entry' = "predict_risks"
        /\ risks' = <<>>
        /\ sidx' = 1
        /\ IF data = None \/ data[1] = <<>>
           THEN Return(Resp([error |-> "No data provided"], 400))
           ELSE /\ pc' = IF data[1].schedules # <<>> /\ WEATHER_API_KEY
                         THEN "pr_weather" ELSE "pr_llm"
                /\ UNCHANGED <<stack, response>>
    /\ UNCHANGED <<source_text, cleaned_text, model, WEATHER_API_KEY, attempt, llmLog, snapshot, fetchLog,
                   forecastLog, weather_info, update, project_data, sent,
                   project_id>>

\* server.py:421-456, one iteration of "for s in schedules"
PredictWeatherEntry ==
    /\ pc = "pr_weather"
    /\ LET schedules == request[1].schedules
           s == schedules[sidx]
       IN  /\ sidx' = sidx + 1
           /\ IF Skipped(s)
              THEN /\ pc' = AfterEntry(sidx, Len(schedules), FALSE)
                   /\ UNCHANGED <<risks, forecastLog>>
              ELSE IF StrptimeRaises(s.date[1])
              THEN /\ pc' = AfterEntry(sidx, Len(schedules), TRUE)
                   /\ UNCHANGED <<risks, forecastLog>>
              ELSE \E answer \in ForecastAnswers :
                     /\ forecastLog' = Append(forecastLog,
                            ForecastCall("forecast", s.location[1],
                                         Some(ToIso(s.date[1])), answer))
                     /\ risks' = risks \o WeatherFindings(s, answer)
                     /\ pc' = AfterEntry(sidx, Len(schedules), ForecastFailed(answer))
    /\ UNCHANGED <<source_text, cleaned_text, model, WEATHER_API_KEY, entry, stack, request, response,
                   attempt, llmLog, snapshot, fetchLog, weather_info, update,
                   project_data, sent, project_id>>

\* server.py:458-485
PredictAiRisks ==
    /\ pc = "pr_llm"
    /\ IF ~model
       THEN /\ Return(Resp([risks |-> risks], 200))
            /\ UNCHANGED <<risks, llmLog>>
       ELSE IF PromptRaises(request[1])
       THEN /\ Return(Resp([risks |-> risks], 200))
            /\ UNCHANGED <<risks, llmLog>>
       ELSE \/ /\ llmLog' = Append(llmLog, Raised)
               /\ Return(Resp([risks |-> risks], 200))
               /\ UNCHANGED risks
            \/ \E raw \in RiskTexts :
                 /\ llmLog' = Append(llmLog, raw)
                 /\ risks' = risks \o AiRisks(raw)
                 /\ Return(Resp([risks |-> risks'], 200))
    /\ UNCHANGED <<source_text, cleaned_text, model, WEATHER_API_KEY, entry, request, attempt, snapshot,
                   fetchLog, sidx, forecastLog, weather_info, update,
                   project_data, sent, project_id>>

----------------------------------------------------------------------------
(* telegram_bot.handle_message                                              *)

NoResponseFromAI == <<Sentence("No response from AI.", "", "", 0)>>

CouldntReachAI(status) == <<Sentence("Error: Couldn't reach AI.", "", "", status)>>

SomethingWentWrong == <<Sentence("Something went wrong.", "", "", 0)>>

\* telegram_bot.py:39-54: a text message arrives and the relay requests the
\* project data; requests.get reaches the backend or raises
handle_message ==
    /\ pc = "idle"
    /\ \E text \in Messages \ {<<>>} :
        /\ update' = text
        /\ entry' = "handle_message"
        /\ \/ /\ pc' = "relay_post"
              /\ UNCHANGED <<stack, project_id>>
           \/ /\ project_id' = PROJECT_ID
              /\ stack' = <<"relay_data">> \o stack
              /\ pc' = "gpd_project"
    /\ UNCHANGED <<source_text, cleaned_text, model, WEATHER_API_KEY, request, response, attempt, llmLog,
                   snapshot, fetchLog, risks, sidx, forecastLog, weather_info,
                   project_data, sent>>

\* telegram_bot.py:49-52
RelayProjectData ==
    /\ pc = "relay_data"
    /\ project_data' = IF response.status = 200 THEN response.body
                       ELSE project_data
    /\ pc' = "relay_post"
    /\ UNCHANGED <<source_text, cleaned_text, model, WEATHER_API_KEY, entry, stack, request, response,
                   attempt, llmLog, snapshot, fetchLog, risks, sidx,
                   forecastLog, weather_info, update, sent, project_id>>

\* telegram_bot.py:66, 75-77: requests.post raises
RelayPostFails ==
    /\ pc = "relay_post"
    /\ sent' = Append(sent, SomethingWentWrong)
    /\ pc' = "done"
    /\ UNCHANGED <<source_text, cleaned_text, model, WEATHER_API_KEY, entry, stack, request, response,
                   attempt, llmLog, snapshot, fetchLog, risks, sidx,
                   forecastLog, weather_info, update, project_data, project_id>>

\* telegram_bot.py:67-73
RelayReply ==
    /\ pc = "relay_reply"
    /\ LET reply == IF response.status = 200
                    THEN IF "reply" \in DOMAIN response.body
                         THEN response.body.reply ELSE NoResponseFromAI
                    ELSE CouldntReachAI(response.status)
       IN  sent' = Append(sent, reply)
    /\ pc' = "done"
    /\ UNCHANGED <<source_text, cleaned_text, model, WEATHER_API_KEY, entry, stack, request, response,
                   attempt, llmLog, snapshot, fetchLog, risks, sidx,
                   forecastLog, weather_info, update, project_data, project_id>>

----------------------------------------------------------------------------

Init ==
    /\ model \in BOOLEAN
    /\ WEATHER_API_KEY \in BOOLEAN
    /\ entry = "none"
    /\ pc = "idle"
    /\ stack = <<>>
    /\ request = None
    /\ response = NoResponse
    /\ attempt = 0
    /\ llmLog = <<>>
    /\ snapshot = [none |-> TRUE]
    /\ fetchLog = <<>>
    /\ risks = <<>>
    /\ sidx = 1
    /\ forecastLog = <<>>
    /\ weather_info = <<>>
    /\ update = <<>>
    /\ project_data = <<>>
    /\ sent = <<>>
    /\ project_id = ""
    /\ source_text = <<>>
    /\ cleaned_text = <<>>

\* server.py:100-106 called on one text
CleanResponseText ==
    /\ pc = "idle"
    /\ entry' = "clean_response_text"
    /\ cleaned_text' = clean_response_text(source_text)
    /\ pc' = "cleaned"
    /\ UNCHANGED <<source_text, model, WEATHER_API_KEY, stack, request, response,
                   attempt, llmLog, snapshot, fetchLog, risks, sidx, forecastLog,
                   weather_info, update, project_data, sent, project_id>>

\* server.py:100-106 called on the text it returned
CleanResponseTextAgain ==
    /\ pc = "cleaned"
    /\ cleaned_text' = clean_response_text(cleaned_text)
    /\ pc' = "cleaned again"
    /\ UNCHANGED <<source_text, model, WEATHER_API_KEY, entry, stack, request,
                   response, attempt, llmLog, snapshot, fetchLog, risks, sidx,
                   forecastLog, weather_info, update, project_data, sent,
                   project_id>>

MaxTextLen == 4

\* the pieces a text is made of: fence, language tag, newline, blank, payload
Pieces == {FENCE, LANG, NL, WS, Doc("[finding]")}

\* every text of at most MaxTextLen pieces
Texts == UNION { [1..n -> Pieces] : n \in 0..MaxTextLen }

\* the state before a call of clean_response_text on any text
InitClean ==
    /\ model \in BOOLEAN
    /\ WEATHER_API_KEY \in BOOLEAN
    /\ entry = "none"
    /\ pc = "idle"
    /\ stack = <<>>
    /\ request = None
    /\ response = NoResponse
    /\ attempt = 0
    /\ llmLog = <<>>
    /\ snapshot = [none |-> TRUE]
    /\ fetchLog = <<>>
    /\ risks = <<>>
    /\ sidx = 1
    /\ forecastLog = <<>>
    /\ weather_info = <<>>
    /\ update = <<>>
    /\ project_data = <<>>
    /\ sent = <<>>
    /\ project_id = ""
    /\ source_text \in Texts
    /\ cleaned_text = <<>>

NextClean ==
    \/ CleanResponseText
    \/ CleanResponseTextAgain

NextProjectData ==
    \/ HttpGetProjectData
    \/ GpdFetchProject
    \/ GpdFetchTable

NextRisks ==
    \/ predict_risks
    \/ PredictWeatherEntry
    \/ PredictAiRisks

NextChat ==
    \/ chat
    \/ GpdFetchProject
    \/ GpdFetchTable
    \/ ChatWeather
    \/ ChatReply

NextRelay ==
    \/ handle_message
    \/ GpdFetchProject
    \/ GpdFetchTable
    \/ RelayProjectData
    \/ RelayPostFails
    \/ chat
    \/ RelayReply

NextData ==
    \/ HttpGetProjectData
    \/ GpdFetchProject
    \/ GpdFetchTable
    \/ chat
    \/ ChatWeather
    \/ ChatReply

Next ==
    \/ realtime_message
    \/ RealtimeAttempt
    \/ HttpGetProjectData
    \/ GpdFetchProject
    \/ GpdFetchTable
    \/ chat
    \/ ChatWeather
    \/ ChatReply
    \/ predict_risks
    \/ PredictWeatherEntry
    \/ PredictAiRisks
    \/ handle_message
    \/ RelayProjectData
    \/ RelayPostFails
    \/ RelayReply

\* every handler
Spec == Init /\ [][Next]_vars

\* clean_response_text alone, on every text
SpecClean == InitClean /\ [][NextClean]_vars

\* GET /project-data/<project_id> alone
SpecProjectData == Init /\ [][NextProjectData]_vars

\* POST /predict-risks alone
SpecRisks == Init /\ [][NextRisks]_vars

\* POST /chat alone
SpecChat == Init /\ [][NextChat]_vars

\* GET /project-data/<project_id> and POST /chat
SpecData == Init /\ [][NextData]_vars

\* the Telegram relay and the endpoints it calls
SpecRelay == Init /\ [][NextRelay]_vars

----------------------------------------------------------------------------
(* C1: in realtime_message with an LLM configured a failed invocation is    *)
(* retried: the fallback message is returned only after the third           *)
(* consecutive failure (up to 3 attempts are made per request).             *)
C1_FallbackOnlyAfterThreeFailures ==
    (/\ entry = "realtime_message"
     /\ pc = "done"
     /\ model
     /\ request # None
     /\ response.status = 200
     /\ response.body = [message |-> FailedToSummarize(Get(request[1], "table"),
                                                       Get(request[1], "eventType"))])
    => llmLog = <<Raised, Raised, Raised>>

----------------------------------------------------------------------------
\* get_project_data has answered the HTTP client
ProjectDataDone == entry = "get_project_data" /\ pc = "done"

\* the fetches of dependent collections that raised or returned no data
DegradedFetches ==
    { i \in 1..Len(fetchLog) : /\ fetchLog[i].table \in Tables
                               /\ fetchLog[i].result \in {"raised", "no data"} }

(* C2: in get_project_data, for an existing project, when the fetch of a    *)
(* dependent collection raises or returns no data, that collection is empty *)
(* in the snapshot, the other collections are still fetched and returned,   *)
(* and the response is status 200.                                          *)
C2_FailedFetchDegradesToEmpty ==
    (/\ ProjectDataDone
     /\ fetchLog[1] = Fetch("projects", "rows")
     /\ DegradedFetches # {})
    => /\ response.status = 200
       /\ Tables \subseteq DOMAIN response.body
       /\ \A i \in DegradedFetches : response.body[fetchLog[i].table] = <<>>
       /\ { fetchLog[i].table : i \in 1..Len(fetchLog) } = Tables \cup {"projects"}

----------------------------------------------------------------------------
(* C3: for every text message the relay handles, the request posted to      *)
(* /chat carries the user's text and the project identifier, so that the    *)
(* chat endpoint (reached, project existing) answers 200 and its reply text *)
(* is what the relay sends back.                                            *)
C3_RelayPostsProjectId ==
    (entry = "handle_message" /\ pc = "relay_reply")
    => /\ Get(request[1], "message") = Some(update)
       /\ Get(request[1], "project_id") = Some(PROJECT_ID)
       /\ response.status = 200

----------------------------------------------------------------------------
\* the last entry of a log
Last(log) == log[Len(log)]

\* a text of the model that is not a valid risk list, in the words of the
\* claim: not JSON, JSON that is not a list, or a list with an element that
\* is not a mapping carrying the five keys
NotARiskList(raw) ==
    LET value == json_loads(clean_response_text(raw))
    IN  \/ ~value.json
        \/ ~value.list
        \/ \E i \in 1..Len(value.items) :
              \/ ~value.items[i].mapping
              \/ \E k \in {"type", "title", "description", "confidence", "impact"} :
                    k \notin value.items[i].keys

(* C4: in predict_risks, when the LLM call raises or its text is not a      *)
(* valid risk list, the LLM contributes no finding, the response is status  *)
(* 200 and the returned list is exactly the weather findings accumulated    *)
(* before the LLM step.                                                     *)
C4_InvalidAiRisksContributeNothing ==
    [][ (/\ pc = "pr_llm"
         /\ llmLog' # llmLog
         /\ (Last(llmLog') = Raised \/ NotARiskList(Last(llmLog'))))
        => /\ pc' = "done"
           /\ response'.status = 200
           /\ response'.body = [risks |-> risks] ]_vars

\* a list with one valid and one invalid element was returned by the model
\* after a weather finding had been emitted
C4_Witness ==
    /\ entry = "predict_risks" /\ pc = "done"
    /\ llmLog = << <<Doc("[finding, 7]")>> >>
    /\ response.body.risks # <<>>

----------------------------------------------------------------------------
\* the body of a chat request carries a non-empty message and a project_id
ChatBodyComplete ==
    /\ request # None
    /\ request[1].message # None /\ request[1].message[1] # <<>>
    /\ request[1].project_id # None /\ request[1].project_id[1] # ""

(* C5: when no LLM is configured, a chat request with a non-empty message   *)
(* and a project_id returns status 200 with the reply "AI unavailable,      *)
(* please try later.", whether or not the project exists, without querying  *)
(* the datastore or the forecast service.                                   *)
C5_ChatWithoutModel ==
    (entry = "chat" /\ ~model /\ ChatBodyComplete)
    => /\ pc = "done"
       /\ response = Resp([reply |-> <<Sentence("AI unavailable, please try later.",
                                                "", "", 0)>>], 200)
       /\ fetchLog = <<>>
       /\ forecastLog = <<>>
       /\ llmLog = <<>>

\* the request names a project that does not exist
C5_Witness ==
    /\ entry = "chat" /\ ~model /\ ChatBodyComplete /\ pc = "done"
    /\ request[1].project_id = Some(MissingProject)

----------------------------------------------------------------------------
\* the entry can be evaluated: it has a location and a valid date
Evaluable(s) == ~Skipped(s) /\ ~StrptimeRaises(s.date[1])

\* the forecast calls that must add a finding
RainyCalls ==
    { i \in 1..Len(forecastLog) :
        LET a == forecastLog[i].answer
        IN  /\ a.status = 200 /\ a.forecastday # <<>>
            /\ a.forecastday[1].condition # None
            /\ a.forecastday[1].rain # None
            /\ a.forecastday[1].rain[1] > 50 }

WeatherRisks(list) == { i \in 1..Len(list) : list[i].title = "Weather Risk" }

(* C6: in predict_risks with a forecast key, a failure while evaluating one *)
(* schedule entry does not stop the loop: every later entry is still        *)
(* evaluated, findings emitted for earlier entries are kept, and the        *)
(* request returns status 200.                                              *)
C6_ForecastFailureIsIsolated ==
    (/\ entry = "predict_risks" /\ pc = "done"
     /\ WEATHER_API_KEY
     /\ request # None /\ request[1] # <<>>)
    => LET schedules == request[1].schedules
       IN  /\ response.status = 200
           /\ Len(forecastLog) =
                Cardinality({ i \in 1..Len(schedules) : Evaluable(schedules[i]) })
           /\ Cardinality(WeatherRisks(response.body.risks)) = Cardinality(RainyCalls)

\* the forecast of the first entry rained, that of the second timed out and
\* the third entry was still evaluated
C6_Witness ==
    /\ entry = "predict_risks" /\ pc = "done"
    /\ Len(forecastLog) = 3
    /\ forecastLog[1].answer.status = 200
    /\ forecastLog[2].answer.status = 0
    /\ forecastLog[3].answer.status = 200
    /\ Cardinality(WeatherRisks(response.body.risks)) = 2

----------------------------------------------------------------------------
\* the forecast answered 200 with a day that has a rain probability and a
\* condition text
WellFormed(answer) ==
    /\ answer.status = 200
    /\ answer.forecastday # <<>>
    /\ answer.forecastday[1].rain # None
    /\ answer.forecastday[1].condition # None

(* C7: in predict_risks, for a schedule entry with a location and a valid   *)
(* date whose forecast call returns status 200 with rain probability p, a   *)
(* weather finding is emitted if and only if p > 50, and its confidence is  *)
(* p; no weather finding is emitted for p <= 50.                            *)
C7_RainThreshold ==
    [][ (pc = "pr_weather" /\ forecastLog' # forecastLog
         /\ WellFormed(Last(forecastLog').answer))
        => LET p == Last(forecastLog').answer.forecastday[1].rain[1]
           IN  IF p > 50
               THEN /\ Len(risks') = Len(risks) + 1
                    /\ SubSeq(risks', 1, Len(risks)) = risks
                    /\ Last(risks').title = "Weather Risk"
                    /\ Last(risks').confidence = p
               ELSE risks' = risks ]_vars

\* one forecast said 51 and one said 50: exactly the first is in the list
C7_Witness ==
    /\ entry = "predict_risks" /\ pc = "pr_llm"
    /\ Len(forecastLog) = 2
    /\ WellFormed(forecastLog[1].answer)
    /\ forecastLog[1].answer.forecastday[1].rain = Some(51)
    /\ WellFormed(forecastLog[2].answer)
    /\ forecastLog[2].answer.forecastday[1].rain = Some(50)
    /\ Len(risks) = 1 /\ risks[1].confidence = 51

----------------------------------------------------------------------------
\* chat has answered a complete request after get_project_data returned a
\* snapshot
ChatAnswered ==
    /\ entry = "chat" /\ pc = "done" /\ model /\ ChatBodyComplete
    /\ NextTable(snapshot, 1) = 0

\* the message says "weather" in some case
SaysWeather ==
    \E i \in 1..Len(request[1].message[1]) :
        request[1].message[1][i] \in {"weather", "Weather", "WEATHER"}

\* the message says "our location" or "shoot location" in some case
SaysOurLocation ==
    \E i \in 1..Len(request[1].message[1]) :
        request[1].message[1][i] \in {"our location", "Our Location",
                                      "shoot location", "SHOOT LOCATION"}

\* the caller supplied a location
LocationSupplied == request[1].location # None /\ request[1].location[1] # ""

\* the forecast service was asked once, about q
AskedAbout(q) == Len(forecastLog) = 1 /\ forecastLog[1].q = q

\* the request ended with this reply and neither the forecast service nor
\* the model was invoked
EndedWith(text) ==
    /\ response = Resp([reply |-> <<Sentence(text, "", "", 0)>>], 200)
    /\ forecastLog = <<>>
    /\ llmLog = <<>>

(* C8 as stated: in chat, when the message contains "weather", a            *)
(* caller-supplied location is used even if the message also says "our      *)
(* location"; otherwise a phrase match uses the first project location;     *)
(* otherwise the request ends with the clarification reply and neither the  *)
(* forecast service nor the LLM is invoked.  Without "weather" no forecast  *)
(* call is made.                                                            *)
C8_LocationPriority_Original ==
    ChatAnswered =>
        IF ~SaysWeather THEN forecastLog = <<>>
        ELSE IF LocationSupplied THEN AskedAbout(request[1].location[1])
        ELSE IF SaysOurLocation
        THEN /\ Len(forecastLog) = 1
             /\ snapshot.locations # <<>>
             /\ forecastLog[1].q = snapshot.locations[1].name[1]
        ELSE EndedWith("Please provide a location (e.g. Hyderabad or 17.3850,78.4867).")

(* C8 amended: as C8, but a phrase match uses the first project location    *)
(* only when the project has a location; when it has none the request ends  *)
(* with the reply "No shooting locations found in project data." and        *)
(* neither the forecast service nor the LLM is invoked.                     *)
C8_LocationPriority ==
    ChatAnswered =>
        IF ~SaysWeather THEN forecastLog = <<>>
        ELSE IF LocationSupplied THEN AskedAbout(request[1].location[1])
        ELSE IF SaysOurLocation
        THEN IF snapshot.locations # <<>>
             THEN AskedAbout(snapshot.locations[1].name[1])
             ELSE EndedWith("No shooting locations found in project data.")
        ELSE EndedWith("Please provide a location (e.g. Hyderabad or 17.3850,78.4867).")

\* a weather question about "our location" for a project without locations
C8_Witness ==
    /\ ChatAnswered /\ SaysWeather /\ SaysOurLocation /\ ~LocationSupplied
    /\ snapshot.locations = <<>>
    /\ "reply" \in DOMAIN response.body

\* a weather question that says "our location" and supplies a location
C8_WitnessSupplied ==
    /\ ChatAnswered /\ SaysWeather /\ SaysOurLocation /\ LocationSupplied
    /\ snapshot.locations # <<>>
    /\ Len(forecastLog) = 1

----------------------------------------------------------------------------
\* chat has returned a reply built from a text of the model
ChatReplied ==
    /\ entry = "chat" /\ pc = "done"
    /\ llmLog # <<>> /\ Last(llmLog) # Raised

\* the message says "delay" or "extra days" in some case
SaysDelay ==
    \E i \in 1..Len(request[1].message[1]) :
        request[1].message[1][i] \in {"delay", "Delay", "extra days", "Extra Days"}

\* the positions of the delay-cost sentence in a text
DelaySentences(text) ==
    { i \in 1..Len(text) : text[i].kind = "Estimated cost impact of extra days" }

\* the figures the datastore holds for the project of the request
StoredBudget ==
    LET v == StoredRow(project_id, "projects", 1).total_budget
    IN  IF v = None THEN 0 ELSE v[1]

StoredDays ==
    LET v == StoredRow(project_id, "projects", 1).days_in_production
    IN  IF v = None \/ v[1] < 1 THEN 1 ELSE v[1]

(* C9: in chat, when the message contains "delay" or "extra days" and the   *)
(* LLM call succeeds, the reply contains the delay-cost sentence, whose     *)
(* amount is 3 * total_budget / max(days_in_production, 1) in whole rupees  *)
(* (90000 for total_budget 900000 and 30 days); the sentence is appended    *)
(* exactly when the text of the model does not contain it.                  *)
C9_DelayCostSentence ==
    (ChatReplied /\ SaysDelay)
    => LET reply == response.body.reply
           text == Last(llmLog)
       IN  /\ response.status = 200
           /\ DelaySentences(reply) # {}
           /\ \A i \in DelaySentences(reply) :
                 LET diff == reply[i].n * StoredDays - 3 * StoredBudget
                 IN  /\ 2 * diff <= StoredDays
                     /\ -2 * diff <= StoredDays
                     /\ (StoredBudget = 900000 /\ StoredDays = 30)
                            => reply[i].n = 90000
           /\ Cardinality(DelaySentences(reply)) =
                 IF DelaySentences(text) = {} THEN 1
                 ELSE Cardinality(DelaySentences(text))

\* the model did not mention the cost of the delay of the 900000 / 30 project
C9_Witness ==
    /\ ChatReplied /\ SaysDelay
    /\ project_id = "p_full"
    /\ DelaySentences(Last(llmLog)) = {}
    /\ \E i \in DelaySentences(response.body.reply) : response.body.reply[i].n = 90000

----------------------------------------------------------------------------
(* C10: for a project identifier without a project record, get_project_data *)
(* returns status 404 without fetching any dependent collection, and chat   *)
(* returns that 404 response without invoking the forecast service or the   *)
(* LLM.                                                                     *)
C10_MissingProjectIs404 ==
    (/\ entry \in {"get_project_data", "chat"}
     /\ project_id = MissingProject
     /\ fetchLog # <<>>
     /\ fetchLog[1].result # "raised")
    => /\ Len(fetchLog) = 1 /\ fetchLog[1].table = "projects"
       /\ forecastLog = <<>>
       /\ llmLog = <<>>
       /\ response.status = 404
       /\ response.body = [error |-> "Project not found"]

\* chat has answered a request for the missing project
C10_Witness ==
    /\ entry = "chat" /\ pc = "done"
    /\ project_id = MissingProject
    /\ response.status = 404

\* get_project_data has answered a request for the missing project
C10_WitnessProjectData ==
    /\ entry = "get_project_data" /\ pc = "done"
    /\ project_id = MissingProject
    /\ response.status = 404

----------------------------------------------------------------------------
\* the body of the request lacks a required field: for chat a message or a
\* project_id (an absent or null body lacks both), for predict_risks
\* everything
RequiredFieldMissing ==
    \/ /\ entry = "chat"
       /\ \/ request = None
          \/ Get(request[1], "message") = None
          \/ Get(request[1], "project_id") = None
    \/ /\ entry = "predict_risks"
       /\ (request = None \/ request[1] = <<>>)

(* C11: a request missing a required field yields a 400-class response and  *)
(* triggers no datastore, forecast or LLM call: for chat a body without     *)
(* message or without project_id, an absent or null body included; for      *)
(* predict_risks an absent or empty body.                                   *)
C11_MissingFieldIs400 ==
    (pc = "done" /\ RequiredFieldMissing)
    => /\ response.status \in 400..499
       /\ fetchLog = <<>>
       /\ forecastLog = <<>>
       /\ llmLog = <<>>

----------------------------------------------------------------------------
\* the findings the LLM step added to the list it returns
AddedByLLM(before, after) ==
    { after[i] : i \in (Len(before) + 1)..Len(after) }

(* C12 as stated: for every input to predict_risks and every LLM response,  *)
(* the LLM-derived part of the returned risk list is either empty or every  *)
(* one of its elements has exactly the five keys type, title, description,  *)
(* confidence and impact.                                                   *)
C12_ExactlyFiveKeys_Original ==
    [][ (pc = "pr_llm" /\ pc' = "done" /\ response'.status = 200)
        => \A r \in AddedByLLM(risks, response'.body.risks) :
              /\ r.mapping
              /\ r.keys = {"type", "title", "description", "confidence", "impact"} ]_vars

(* C12 amended: for every input to predict_risks and every LLM response,    *)
(* the LLM-derived part of the returned risk list is either empty or every  *)
(* one of its elements is a mapping that has at least the five keys type,   *)
(* title, description, confidence and impact (extra keys are let through).  *)
C12_AtLeastFiveKeys ==
    [][ (pc = "pr_llm" /\ pc' = "done" /\ response'.status = 200)
        => \A r \in AddedByLLM(risks, response'.body.risks) :
              /\ r.mapping
              /\ {"type", "title", "description", "confidence", "impact"}
                    \subseteq r.keys ]_vars

\* the model returned a finding with a sixth key and it is in the response
C12_Witness ==
    /\ entry = "predict_risks" /\ pc = "done"
    /\ llmLog = << <<Doc("[finding with source]")>> >>
    /\ response.body.risks # <<>>
    /\ "source" \in response.body.risks[Len(response.body.risks)].keys

----------------------------------------------------------------------------
\* the fields of a sub-record of the snapshot that come from nullable columns
NullableFields(table) ==
    IF table = "schedules" THEN {"location", "status", "date"}
    ELSE DOMAIN Projection(table, StoredRow("p_full", table, 1)) \ {"id"}

(* C13: in every snapshot get_project_data returns with status 200, no      *)
(* field of the project header or of any sub-record is null: a stored null  *)
(* has been replaced by 0 or by a sentinel string, for every record type,   *)
(* the status of schedules, invoices and scripts and the fields of dailies  *)
(* and deliverables included.                                               *)
C13_NoNullInSnapshot ==
    (ProjectDataDone /\ response.status = 200)
    => /\ \A f \in DOMAIN response.body.project \ {"id"} :
             response.body.project[f] # None
       /\ \A table \in Tables :
             \A i \in 1..Len(response.body[table]) :
                \A f \in NullableFields(table) :
                   response.body[table][i][f] # None

----------------------------------------------------------------------------
(* C14: clean_response_text is idempotent: for every text t, cleaning the   *)
(* cleaned text gives the cleaned text, clean(clean(t)) = clean(t),         *)
(* including texts with nested or repeated fences and texts with whitespace *)
(* just inside the fence.                                                   *)
C14_CleanIsIdempotent ==
    [][ (pc = "cleaned" /\ pc' = "cleaned again")
        => cleaned_text' = cleaned_text ]_vars

----------------------------------------------------------------------------
\* the message texts realtime_message can answer with for a request
RealtimeMessages(data) ==
    LET table == IF data = None THEN None ELSE Get(data[1], "table")
        event_type == IF data = None THEN None ELSE Get(data[1], "eventType")
    IN  { Strip(text) : text \in SummaryTexts } \cup
        { AIUnavailableEvent(table, event_type),
          FailedToSummarize(table, event_type) }

(* C15: realtime_message never returns an error status and never lets an    *)
(* exception escape: for every request body (absent, null or non-object     *)
(* included) and every behaviour of the LLM the response has status 200 and *)
(* carries the LLM summary, the "AI unavailable" text or the fallback text. *)
C15_RealtimeAlways200 ==
    (entry = "realtime_message" /\ pc = "done")
    => /\ response.status = 200
       /\ DOMAIN response.body = {"message"}
       /\ response.body.message \in RealtimeMessages(request)

----------------------------------------------------------------------------
\* the datastore holds a first location for the project and its name is null
FirstLocationUnnamed ==
    /\ snapshot.locations # <<>>
    /\ StoredRow(project_id, "locations", 1).name = None

(* C16: in chat, for a weather question that says "our location" or "shoot  *)
(* location", with no caller-supplied location, when the project's first    *)
(* location record has no name in the datastore, the forecast is queried    *)
(* for "Hyderabad" and the weather text names "Hyderabad".                  *)
C16_UnnamedLocationIsHyderabad ==
    (/\ ChatAnswered
     /\ SaysWeather
     /\ SaysOurLocation
     /\ ~LocationSupplied
     /\ FirstLocationUnnamed)
    => /\ AskedAbout("Hyderabad")
       /\ weather_info # <<>>
       /\ weather_info[1].kind \in {"Weather in", "Weather data unavailable for"}
             => weather_info[1].s = "Hyderabad"

----------------------------------------------------------------------------
(* C17: every finding in the list predict_risks returns with status 200,    *)
(* weather-derived or LLM-derived, has an integer confidence between 0 and  *)
(* 100.                                                                     *)
C17_ConfidenceInRange ==
    (entry = "predict_risks" /\ pc = "done" /\ response.status = 200)
    => \A i \in 1..Len(response.body.risks) :
          response.body.risks[i].confidence \in 0..100

====
